---- MODULE Spec2Model ----
(***************************************************************************)
(* Model of the jobqueue Stack: a single control loop (Stack.run) that     *)
(* owns the LIFO buffer, the busy counter and the closing flag, and the    *)
(* callers that talk to it over unbuffered channels (Wait, the done        *)
(* closure, Status, Close, CloseForced).                                   *)
(*                                                                         *)
(* The buffer is a container/list: Front is the top (PushFront), Back is   *)
(* the bottom.  It is modelled as a sequence whose first element is the    *)
(* Front and whose last element is the Back.                               *)
(*                                                                         *)
(* Every send of the loop on an unbuffered channel (j.notify, the status   *)
(* reply) meets a caller that is already blocked in the matching receive,  *)
(* so a whole select case of the loop is one action.                       *)
(*                                                                         *)
(* Spec is the Stack with Wait, done, Status, Close and CloseForced;       *)
(* FairSpec adds the scheduling the liveness properties need;              *)
(* TerminatedSpec adds the calls made after run has returned;              *)
(* ReconfigureSpec adds Reconfigure to a running Stack.  The HTTP Handler  *)
(* is a pair of operators over the errors that Wait returns.               *)
(***************************************************************************)
EXTENDS Integers, Naturals, Sequences, FiniteSets, TLC

\* Bounds of the model.
MaxJobs == 4
MaxConc == 2
MaxStack == 2
\* number of Wait calls in the specification the liveness properties are checked under
MaxLiveJobs == 3

Jobs == 1..MaxJobs

\* Values that travel on job.notify / are returned by Wait.
Nil == "nil"
ErrStackFull == "ErrStackFull"
ErrTimeout == "ErrTimeout"
ErrClosed == "ErrClosed"
NoErr == "none"

\* Durations: only "zero" and "positive" are distinguished by the code.
Durations == {0, 1}

VARIABLES
    options,      \* Stack.options, after With() normalised it
    stack,        \* Stack.stack.list: job ids, Front (top) first
    busy,         \* Stack.busy
    closing,      \* Stack.closing
    hasQuit,      \* Stack.hasQuit is closed (run has returned)
    closeTimeout, \* run's closeTimeout channel is armed (non-nil)
    njobs,        \* number of newJob() calls so far; job ids are creation order
    fired,        \* the jobs still in Wait whose timer has fired; the timers have the
                  \* same duration, so they fire in the order newJob armed them
    pc,           \* position of each Wait/done caller: "idle" (Wait not called),
                  \* "select" (in Wait's select), "queued" (blocked in <-j.notify),
                  \* "admitted" (Wait returned done, nil; the job runs, then offers
                  \* its completion), "released" (done returned), "returned" (Wait returned
                  \* the error it got on notify), "notSent" (Wait saw hasQuit)
    err,          \* err returned by each Wait
    notify,       \* values sent so far on each job.notify
    pushed,       \* history: the jobs handed over and not yet answered, in the
                  \* order the loop took them from s.req
    lastEvent,    \* the select case run last took
    statusReply,  \* reply of the status query, if that was the last event
    call,         \* the last call of Status, Close, CloseForced or Reconfigure that
                  \* returned through its hasQuit case, and Reconfigure's last
                  \* return value
    reconfigures  \* history: one entry for each Reconfigure the loop took, TRUE when
                  \* the new MaxConcurrency was below busy

vars == <<options, stack, busy, closing, hasQuit, closeTimeout, njobs, fired,
          pc, err, notify, pushed, lastEvent, statusReply, call, reconfigures>>

----------------------------------------------------------------------------
\* stack.go

empty(l) == Len(l) = 0

\* variant: a cap of zero is taken as a cap of one
full_zeroCapAsOne(l, cap) == Len(l) = (IF cap > 0 THEN cap ELSE 1)

\* variant: the capacity test is off by one
full_offByOne(l, cap) == cap > 0 /\ Len(l) = cap + 1

full(l, cap) == cap > 0 /\ Len(l) = cap

\* variant: bottom returns the Front of the list
bottom_isFront(l) == IF Len(l) = 0 THEN 0 ELSE l[1]

\* nil is modelled as 0
bottom(l) == IF Len(l) = 0 THEN 0 ELSE l[Len(l)]

push(l, j) == <<j>> \o l

\* removeEntry(e): the job of the entry at position i, and the list without it
removeEntry(l, i) ==
    [job |-> l[i], list |-> SubSeq(l, 1, i - 1) \o SubSeq(l, i + 1, Len(l))]

\* variant: pop takes the Back (first in, first out)
pop_fromBack(l) == removeEntry(l, Len(l))

\* pop removes and returns the Front
pop(l) == removeEntry(l, 1)

\* variant: shift returns the Back but leaves it in the list
shift_keepsEntry(l) == [job |-> l[Len(l)], list |-> l]

\* variant: shift takes the Front (the newest job)
shift_fromFront(l) == removeEntry(l, 1)

\* shift removes and returns the Back
shift(l) == removeEntry(l, Len(l))

----------------------------------------------------------------------------
\* With(o): normalise the options

\* variant: the options are taken as they are
With_keepsZero(o) == o

With(o) == [o EXCEPT !.MaxConcurrency = IF o.MaxConcurrency <= 0 THEN 1 ELSE o.MaxConcurrency]

OptionInputs ==
    [MaxConcurrency : 0..MaxConc, MaxStackSize : 0..MaxStack,
     Timeout : Durations, CloseTimeout : Durations]

NoStatus == [ActiveJobs |-> -1, QueuedJobs |-> -1, Closing |-> FALSE, Closed |-> FALSE]

NoCall == [op |-> "none", err |-> NoErr]

Init ==
    /\ options \in {With(o) : o \in OptionInputs}
    /\ stack = <<>>
    /\ busy = 0
    /\ closing = FALSE
    /\ hasQuit = FALSE
    /\ closeTimeout = FALSE
    /\ njobs = 0
    /\ fired = {}
    /\ pc = [j \in Jobs |-> "idle"]
    /\ err = [j \in Jobs |-> NoErr]
    /\ notify = [j \in Jobs |-> <<>>]
    /\ pushed = <<>>
    /\ lastEvent = "none"
    /\ statusReply = NoStatus
    /\ call = NoCall
    /\ reconfigures = <<>>

----------------------------------------------------------------------------
\* Helpers for the sends of the loop.

\* The loop sends sent[k] on job k's notify channel, for every k in DOMAIN sent;
\* the caller blocked in <-j.notify returns from Wait with that value.  The jobs
\* of the sequence `parked` were handed over and stay blocked in <-j.notify; the
\* jobs of `finished` are those whose done() was received.
Deliver(sent, parked, finished) ==
    /\ notify' = [k \in Jobs |-> IF k \in DOMAIN sent THEN Append(notify[k], sent[k]) ELSE notify[k]]
    /\ err' = [k \in Jobs |-> IF k \in DOMAIN sent THEN sent[k] ELSE err[k]]
    /\ pc' = [k \in Jobs |->
                IF k \in DOMAIN sent
                THEN (IF sent[k] = Nil THEN "admitted" ELSE "returned")
                ELSE IF k \in finished THEN "released"
                ELSE IF \E i \in 1..Len(parked) : parked[i] = k THEN "queued"
                ELSE pc[k]]
    /\ pushed' = SelectSeq(pushed, LAMBDA k : k \notin DOMAIN sent) \o parked
    /\ fired' = fired \ DOMAIN sent

\* the jobs of a list, as a set
Elems(l) == {l[i] : i \in 1..Len(l)}

NoSend == [k \in {} |-> Nil]

\* variant: only the bottom job is told
rejectQueued_onlyBottom(l) == [k \in {bottom(l)} \cap Jobs |-> ErrClosed]

\* rejectQueued: shift every job off the stack and send it ErrClosed
rejectQueued(l) == [k \in Elems(l) |-> ErrClosed]

----------------------------------------------------------------------------
\* Callers

\* Wait: j := s.newJob(); the timer is armed here when Timeout > 0.
\* At most `limit` calls of Wait are made.
newJob(limit) ==
    /\ njobs < limit
    /\ njobs' = njobs + 1
    /\ pc' = [pc EXCEPT ![njobs + 1] = "select"]
    /\ lastEvent' = lastEvent
    /\ statusReply' = statusReply
    /\ UNCHANGED <<options, call, reconfigures, stack, busy, closing, hasQuit, closeTimeout, fired,
                   err, notify, pushed>>

\* the jobs whose caller is still inside Wait
Waiting == {j \in Jobs : pc[j] \in {"select", "queued"}}

\* time.After(Timeout) of job j fires: the timers armed before it have fired.
\* Only the timers of jobs still in Wait are tracked, and only while run is
\* alive: run is the only reader of a timer, and only of a parked job's.
timerFires(j) ==
    /\ options.Timeout > 0
    /\ ~hasQuit
    /\ j \in Waiting \ fired
    /\ \A k \in Waiting : k < j => k \in fired
    /\ fired' = fired \cup {j}
    /\ UNCHANGED <<options, call, reconfigures, stack, busy, closing, hasQuit, closeTimeout, njobs,
                   pc, err, notify, pushed, lastEvent, statusReply>>

\* the timeout channel of job j holds a value
timerFired(j) == options.Timeout > 0 /\ j \in fired

\* Wait: case <-s.hasQuit: err = ErrClosed
WaitHasQuit(j) ==
    /\ pc[j] = "select"
    /\ hasQuit
    /\ pc' = [pc EXCEPT ![j] = "notSent"]
    /\ err' = [err EXCEPT ![j] = ErrClosed]
    /\ fired' = fired \ {j}
    /\ UNCHANGED <<options, call, reconfigures, stack, busy, closing, hasQuit, closeTimeout, njobs,
                   notify, pushed, lastEvent, statusReply>>

\* variant: a done call that finds hasQuit closed still takes its job off busy
doneHasQuit_decrements(j) ==
    /\ pc[j] = "admitted"
    /\ hasQuit
    /\ pc' = [pc EXCEPT ![j] = "released"]
    /\ busy' = busy - 1
    /\ UNCHANGED <<options, call, reconfigures, stack, closing, hasQuit, closeTimeout, njobs,
                   fired, err, notify, pushed, lastEvent, statusReply>>

\* variant: done only sends on s.done (no case for hasQuit)
doneHasQuit_missing(j) == FALSE /\ pc[j] = "admitted" /\ UNCHANGED vars

\* done: case <-s.hasQuit
doneHasQuit(j) ==
    /\ pc[j] = "admitted"
    /\ hasQuit
    /\ pc' = [pc EXCEPT ![j] = "released"]
    /\ UNCHANGED <<options, call, reconfigures, stack, busy, closing, hasQuit, closeTimeout, njobs,
                   fired, err, notify, pushed, lastEvent, statusReply>>

----------------------------------------------------------------------------
\* Stack.run: one action per select case

\* variant: the last free slot is not given away
hasSlot_keepsOneFree(b, o) == b + 1 < o.MaxConcurrency

\* variant: a job is run whatever the number of running jobs
hasSlot_ignoresCeiling(b, o) == b >= 0

\* variant: admits one job more than MaxConcurrency
hasSlot_offByOne(b, o) == b <= o.MaxConcurrency

\* run, case j := <-s.req: the test that admits the arrival at once
hasSlot(b, o) == b < o.MaxConcurrency

\* variant: run returns while the last job is still running
drained_beforeLastDone(c, b, l) == c /\ b <= 1 /\ empty(l)

\* variant: the loop ends as soon as the stack is empty, whatever is running
drained_ignoresBusy(c, b, l) == c /\ empty(l)

\* variant: the emptiness test is inverted, so a drained loop never ends
drained_wrongEmpty(c, b, l) == c /\ b = 0 /\ ~empty(l)

\* run, case <-s.done: the test that ends the loop after a completion
drained(c, b, l) == c /\ b = 0 /\ empty(l)

\* variant: the arrival is handled without looking at s.closing
runReq_ignoresClosing(j) ==
    /\ ~hasQuit
    /\ pc[j] = "select"
    /\ lastEvent' = "req"
    /\ statusReply' = NoStatus
    /\ IF hasSlot(busy, options)
       THEN /\ busy' = busy + 1
            /\ Deliver([k \in {j} |-> Nil], <<>>, {})
            /\ UNCHANGED stack
       ELSE /\ IF full(stack, options.MaxStackSize)
               THEN /\ Deliver([k \in {shift(stack).job} |-> ErrStackFull], <<j>>, {})
                    /\ stack' = push(shift(stack).list, j)
               ELSE /\ Deliver(NoSend, <<j>>, {})
                    /\ stack' = push(stack, j)
            /\ busy' = busy
    /\ UNCHANGED <<options, call, reconfigures, closing, hasQuit, closeTimeout, njobs>>

\* case j := <-s.req
runReq(j) ==
    /\ ~hasQuit
    /\ pc[j] = "select"
    /\ lastEvent' = "req"
    /\ statusReply' = NoStatus
    /\ IF closing
       THEN /\ Deliver([k \in {j} |-> ErrClosed], <<>>, {})
            /\ UNCHANGED <<busy, stack>>
       ELSE IF hasSlot(busy, options)
       THEN /\ busy' = busy + 1
            /\ Deliver([k \in {j} |-> Nil], <<>>, {})
            /\ UNCHANGED stack
       ELSE /\ IF full(stack, options.MaxStackSize)
               THEN /\ Deliver([k \in {shift(stack).job} |-> ErrStackFull], <<j>>, {})
                    /\ stack' = push(shift(stack).list, j)
               ELSE /\ Deliver(NoSend, <<j>>, {})
                    /\ stack' = push(stack, j)
            /\ busy' = busy
    /\ UNCHANGED <<options, call, reconfigures, closing, hasQuit, closeTimeout, njobs>>

\* variant: once the Stack is closing, a completion no longer admits the top
\* job of the stack
runDone_noPromotionWhenClosing(j) ==
    /\ ~hasQuit
    /\ pc[j] = "admitted"
    /\ lastEvent' = "done"
    /\ statusReply' = NoStatus
    /\ LET promote == ~empty(stack) /\ ~closing
           busy1 == IF promote THEN (busy - 1) + 1 ELSE busy - 1
           stack1 == IF promote THEN pop(stack).list ELSE stack
       IN /\ busy' = busy1
          /\ stack' = stack1
          /\ IF promote
             THEN Deliver([k \in {pop(stack).job} |-> Nil], <<>>, {j})
             ELSE Deliver(NoSend, <<>>, {j})
          /\ hasQuit' = drained(closing, busy1, stack1)
    /\ UNCHANGED <<options, call, reconfigures, closing, closeTimeout, njobs>>

\* variant: a completion that admits no queued job leaves busy as it is
runDone_keepsBusy(j) ==
    /\ ~hasQuit
    /\ pc[j] = "admitted"
    /\ lastEvent' = "done"
    /\ statusReply' = NoStatus
    /\ LET promote == ~empty(stack)
           stack1 == IF promote THEN pop(stack).list ELSE stack
       IN /\ busy' = busy
          /\ stack' = stack1
          /\ IF promote
             THEN Deliver([k \in {pop(stack).job} |-> Nil], <<>>, {j})
             ELSE Deliver(NoSend, <<>>, {j})
          /\ hasQuit' = drained(closing, busy, stack1)
    /\ UNCHANGED <<options, call, reconfigures, closing, closeTimeout, njobs>>

\* case <-s.done
runDone(j) ==
    /\ ~hasQuit
    /\ pc[j] = "admitted"
    /\ lastEvent' = "done"
    /\ statusReply' = NoStatus
    /\ LET promote == ~empty(stack)
           busy1 == IF promote THEN (busy - 1) + 1 ELSE busy - 1
           stack1 == IF promote THEN pop(stack).list ELSE stack
       IN /\ busy' = busy1
          /\ stack' = stack1
          /\ IF promote
             THEN Deliver([k \in {pop(stack).job} |-> Nil], <<>>, {j})
             ELSE Deliver(NoSend, <<>>, {j})
          /\ hasQuit' = drained(closing, busy1, stack1)
    /\ UNCHANGED <<options, call, reconfigures, closing, closeTimeout, njobs>>

\* variant: the job whose timer fired is told ErrClosed
runTimeout_sendsClosed ==
    /\ ~hasQuit
    /\ bottom(stack) # 0
    /\ timerFired(bottom(stack))
    /\ lastEvent' = "timeout"
    /\ statusReply' = NoStatus
    /\ Deliver([k \in {bottom(stack)} |-> ErrClosed], <<>>, {})
    /\ stack' = shift(stack).list
    /\ UNCHANGED <<options, call, reconfigures, busy, closing, hasQuit, closeTimeout, njobs>>

\* case <-timeout, where timeout is the timer of the bottom job
runTimeout ==
    /\ ~hasQuit
    /\ bottom(stack) # 0
    /\ timerFired(bottom(stack))
    /\ lastEvent' = "timeout"
    /\ statusReply' = NoStatus
    /\ Deliver([k \in {bottom(stack)} |-> ErrTimeout], <<>>, {})
    /\ stack' = shift(stack).list
    /\ UNCHANGED <<options, call, reconfigures, busy, closing, hasQuit, closeTimeout, njobs>>

\* variant: a closing Stack reports no queued jobs
runStatus_hidesQueueWhenClosing ==
    /\ ~hasQuit
    /\ lastEvent' = "status"
    /\ statusReply' = [ActiveJobs |-> busy,
                       QueuedJobs |-> IF closing THEN 0 ELSE Len(stack),
                       Closing |-> closing, Closed |-> FALSE]
    /\ UNCHANGED <<options, call, reconfigures, stack, busy, closing, hasQuit, closeTimeout, njobs,
                   fired, pc, err, notify, pushed>>

\* case status := <-s.status
runStatus ==
    /\ ~hasQuit
    /\ lastEvent' = "status"
    /\ statusReply' = [ActiveJobs |-> busy, QueuedJobs |-> Len(stack),
                       Closing |-> closing, Closed |-> FALSE]
    /\ UNCHANGED <<options, call, reconfigures, stack, busy, closing, hasQuit, closeTimeout, njobs,
                   fired, pc, err, notify, pushed>>

\* variant: Close on a Stack that is closing already acts as CloseForced
runQuit_secondCloseForces(forced) ==
    /\ ~hasQuit
    /\ statusReply' = NoStatus
    /\ IF forced \/ closing
       THEN /\ lastEvent' = IF forced THEN "quitForced" ELSE "quit"
            /\ Deliver(rejectQueued(stack), <<>>, {})
            /\ stack' = <<>>
            /\ hasQuit' = TRUE
            /\ UNCHANGED <<closing, closeTimeout>>
       ELSE /\ lastEvent' = "quit"
            /\ closing' = TRUE
            /\ IF busy = 0 /\ empty(stack)
               THEN /\ hasQuit' = TRUE
                    /\ UNCHANGED closeTimeout
               ELSE /\ hasQuit' = FALSE
                    /\ closeTimeout' = IF options.CloseTimeout > 0 THEN TRUE ELSE closeTimeout
            /\ UNCHANGED <<stack, pc, err, notify, pushed, fired>>
    /\ UNCHANGED <<options, call, reconfigures, busy, njobs>>

\* case forced := <-s.quit
runQuit(forced) ==
    /\ ~hasQuit
    /\ statusReply' = NoStatus
    /\ IF forced
       THEN /\ lastEvent' = "quitForced"
            /\ Deliver(rejectQueued(stack), <<>>, {})
            /\ stack' = <<>>
            /\ hasQuit' = TRUE
            /\ UNCHANGED <<closing, closeTimeout>>
       ELSE /\ lastEvent' = "quit"
            /\ closing' = TRUE
            /\ IF busy = 0 /\ empty(stack)
               THEN /\ hasQuit' = TRUE
                    /\ UNCHANGED closeTimeout
               ELSE /\ hasQuit' = FALSE
                    /\ closeTimeout' = IF options.CloseTimeout > 0 THEN TRUE ELSE closeTimeout
            /\ UNCHANGED <<stack, pc, err, notify, pushed, fired>>
    /\ UNCHANGED <<options, call, reconfigures, busy, njobs>>

\* variant: the close timeout ends run without rejecting the queued jobs
runCloseTimeout_keepsQueued ==
    /\ ~hasQuit
    /\ closeTimeout
    /\ lastEvent' = "closeTimeout"
    /\ statusReply' = NoStatus
    /\ hasQuit' = TRUE
    /\ UNCHANGED <<options, call, reconfigures, busy, closing, closeTimeout, njobs,
                   stack, pc, err, notify, pushed, fired>>

\* variant: the close timeout rejects the queued jobs but run goes on until
\* the running jobs are done
runCloseTimeout_waitsForActive ==
    /\ ~hasQuit
    /\ closeTimeout
    /\ lastEvent' = "closeTimeout"
    /\ statusReply' = NoStatus
    /\ Deliver(rejectQueued(stack), <<>>, {})
    /\ stack' = <<>>
    /\ hasQuit' = (busy = 0)
    /\ UNCHANGED <<options, call, reconfigures, busy, closing, closeTimeout, njobs>>

\* case <-closeTimeout
runCloseTimeout ==
    /\ ~hasQuit
    /\ closeTimeout
    /\ lastEvent' = "closeTimeout"
    /\ statusReply' = NoStatus
    /\ Deliver(rejectQueued(stack), <<>>, {})
    /\ stack' = <<>>
    /\ hasQuit' = TRUE
    /\ UNCHANGED <<options, call, reconfigures, busy, closing, closeTimeout, njobs>>

----------------------------------------------------------------------------
\* The calls that find hasQuit closed: run has returned, nothing receives on
\* s.status or s.quit any more, so the hasQuit case is the only one that can run.

ClosedStatus == [ActiveJobs |-> 0, QueuedJobs |-> 0, Closing |-> FALSE, Closed |-> TRUE]

\* variant: the snapshot of a closed Stack still carries the counters
StatusHasQuit_staleCounters ==
    /\ hasQuit
    /\ statusReply' = [ActiveJobs |-> busy, QueuedJobs |-> Len(stack),
                       Closing |-> closing, Closed |-> TRUE]
    /\ call' = [op |-> "Status", err |-> NoErr]
    /\ UNCHANGED <<options, reconfigures, stack, busy, closing, hasQuit, closeTimeout, njobs,
                   fired, pc, err, notify, pushed, lastEvent>>

\* Status: case <-s.hasQuit: return Status{Closed: true}
StatusHasQuit ==
    /\ hasQuit
    /\ statusReply' = ClosedStatus
    /\ call' = [op |-> "Status", err |-> NoErr]
    /\ UNCHANGED <<options, reconfigures, stack, busy, closing, hasQuit, closeTimeout, njobs,
                   fired, pc, err, notify, pushed, lastEvent>>

\* Close (forced = FALSE) and CloseForced (forced = TRUE): case <-s.hasQuit
CloseHasQuit(forced) ==
    /\ hasQuit
    /\ call' = [op |-> IF forced THEN "CloseForced" ELSE "Close", err |-> NoErr]
    /\ UNCHANGED <<options, reconfigures, stack, busy, closing, hasQuit, closeTimeout, njobs,
                   fired, pc, err, notify, pushed, lastEvent, statusReply>>

----------------------------------------------------------------------------
\* Reconfigure.  Its implementation is not part of the sources at hand; what
\* is modelled is its description, in the one order of its two loops that the
\* table of TestReconfigure allows: from 2 active and 2 queued jobs,
\* {MaxConcurrency: 3, MaxStackSize: 1} has to leave 3 active and 1 queued,
\* so the queued jobs are admitted before the stack is cut to its new size.

\* at most this many Reconfigure calls are answered by the loop
MaxReconfigure == 1

\* The options a Reconfigure call may pass.  The durations are left as they
\* are: a job's timer is armed by newJob with the Timeout of that moment.
ReconfigureInputs ==
    {[options EXCEPT !.MaxConcurrency = c, !.MaxStackSize = s] :
        c \in 0..(MaxConc + 1), s \in 0..MaxStack}

\* while busy < MaxConcurrency and the stack is not empty: pop, busy++, notify nil
RECURSIVE admitWaiting(_, _, _)
admitWaiting(b, l, o) ==
    IF hasSlot(b, o) /\ ~empty(l)
    THEN LET rest == admitWaiting(b + 1, pop(l).list, o)
         IN [busy |-> rest.busy, list |-> rest.list, jobs |-> {pop(l).job} \cup rest.jobs]
    ELSE [busy |-> b, list |-> l, jobs |-> {}]

\* variant: the stack is cut from the top
RECURSIVE trim_fromTop(_, _)
trim_fromTop(l, cap) ==
    IF cap > 0 /\ Len(l) > cap
    THEN LET rest == trim_fromTop(pop(l).list, cap)
         IN [list |-> rest.list, jobs |-> {pop(l).job} \cup rest.jobs]
    ELSE [list |-> l, jobs |-> {}]

\* while the stack is longer than a positive cap: shift, notify ErrStackFull
RECURSIVE trim(_, _)
trim(l, cap) ==
    IF cap > 0 /\ Len(l) > cap
    THEN LET rest == trim(shift(l).list, cap)
         IN [list |-> rest.list, jobs |-> {shift(l).job} \cup rest.jobs]
    ELSE [list |-> l, jobs |-> {}]

\* variant: the stack is cut to its new size before the queued jobs are admitted
reconfigured_trimFirst(b, l, o) ==
    LET cut == trim(l, o.MaxStackSize)
        adm == admitWaiting(b, cut.list, o)
    IN [busy |-> adm.busy, list |-> adm.list, admitted |-> adm.jobs, dropped |-> cut.jobs]

\* the counters and the stack after the new options o are applied
reconfigured(b, l, o) ==
    LET adm == admitWaiting(b, l, o)
        cut == trim(adm.list, o.MaxStackSize)
    IN [busy |-> adm.busy, list |-> cut.list, admitted |-> adm.jobs, dropped |-> cut.jobs]

\* the loop takes a Reconfigure call
runReconfigure(o) ==
    /\ ~hasQuit
    /\ Len(reconfigures) < MaxReconfigure
    /\ lastEvent' = "reconfigure"
    /\ statusReply' = NoStatus
    /\ call' = [op |-> "Reconfigure", err |-> Nil]
    /\ options' = With(o)
    /\ reconfigures' = Append(reconfigures, busy > With(o).MaxConcurrency)
    /\ LET r == reconfigured(busy, stack, With(o))
       IN /\ busy' = r.busy
          /\ stack' = r.list
          /\ Deliver([k \in r.admitted \cup r.dropped |->
                         IF k \in r.admitted THEN Nil ELSE ErrStackFull], <<>>, {})
    /\ UNCHANGED <<closing, hasQuit, closeTimeout, njobs>>

\* Reconfigure: the call finds hasQuit closed
ReconfigureHasQuit ==
    /\ hasQuit
    /\ call' = [op |-> "Reconfigure", err |-> ErrClosed]
    /\ UNCHANGED <<options, reconfigures, stack, busy, closing, hasQuit, closeTimeout, njobs,
                   fired, pc, err, notify, pushed, lastEvent, statusReply>>

----------------------------------------------------------------------------
\* The HTTP handler: ServeHTTP runs the wrapped handler as the job of Do and
\* maps the error of Do to a status code.

\* http.StatusServiceUnavailable
StatusServiceUnavailable == 503

\* The status codes an HTTPOptions may carry: unset, or a code of the
\* caller's choice.
StatusCodes == {0, 429}

HTTPOptionInputs == [StackFullStatusCode : StatusCodes, TimeoutStatusCode : StatusCodes]

\* variant: an unset TimeoutStatusCode is left unset
NewHandler_noTimeoutDefault(o) ==
    [o EXCEPT !.StackFullStatusCode =
                  IF o.StackFullStatusCode = 0 THEN StatusServiceUnavailable
                  ELSE o.StackFullStatusCode]

\* NewHandler: the options of the Handler
NewHandler(o) ==
    [o EXCEPT !.StackFullStatusCode =
                  IF o.StackFullStatusCode = 0 THEN StatusServiceUnavailable
                  ELSE o.StackFullStatusCode,
              !.TimeoutStatusCode =
                  IF o.TimeoutStatusCode = 0 THEN StatusServiceUnavailable
                  ELSE o.TimeoutStatusCode]

\* Do calls job() exactly when Wait returned nil: the jobs that were run
Served == {j \in Jobs : pc[j] \in {"admitted", "released"}}

\* ServeHTTP: the status code the Handler itself writes when Do returned e;
\* 0 when it writes none and the response is what the wrapped handler made it
ServeHTTP(h, e) ==
    CASE e = ErrStackFull -> h.StackFullStatusCode
      [] e = ErrTimeout -> h.TimeoutStatusCode
      [] OTHER -> 0

----------------------------------------------------------------------------

\* the callers' steps other than the call of Wait
Callers ==
    \/ \E j \in Jobs : timerFires(j)
    \/ \E j \in Jobs : WaitHasQuit(j)
    \/ \E j \in Jobs : doneHasQuit(j)

\* the select of Stack.run
run ==
    \/ \E j \in Jobs : runReq(j)
    \/ \E j \in Jobs : runDone(j)
    \/ runTimeout
    \/ runStatus
    \/ \E forced \in BOOLEAN : runQuit(forced)
    \/ runCloseTimeout

Next ==
    \/ newJob(MaxJobs)
    \/ Callers
    \/ run

Spec == Init /\ [][Next]_vars

LiveNext ==
    \/ newJob(MaxLiveJobs)
    \/ Callers
    \/ run

\* The scheduling the liveness claims assume: every admitted job calls done, the
\* loop's select takes a completion that stays offered, and a caller blocked in
\* done's select proceeds once hasQuit is closed.  Nothing is assumed about
\* Close, CloseForced or the timers.
Fairness ==
    /\ \A j \in Jobs : WF_vars(doneHasQuit(j))
    /\ \A j \in Jobs : WF_vars(runDone(j))

FairSpec == Init /\ [][LiveNext]_vars /\ Fairness

\* the calls made on a Stack whose run has returned
Terminated ==
    \/ StatusHasQuit
    \/ \E forced \in BOOLEAN : CloseHasQuit(forced)
    \/ ReconfigureHasQuit

\* Spec, together with the calls that find hasQuit closed
TerminatedNext ==
    \/ newJob(MaxLiveJobs)
    \/ Callers
    \/ run
    \/ Terminated

TerminatedSpec == Init /\ [][TerminatedNext]_vars

\* Reconfigure on a running Stack: one that arms no timer (Timeout and
\* CloseTimeout are zero) and that is not closed, so that of the cases of run
\* only req, done, status and the Reconfigure call are taken.
ReconfigureInit == Init /\ options.Timeout = 0 /\ options.CloseTimeout = 0

ReconfigureNext ==
    \/ newJob(MaxJobs)
    \/ \E j \in Jobs : runReq(j)
    \/ \E j \in Jobs : runDone(j)
    \/ runStatus
    \/ \E o \in ReconfigureInputs : runReconfigure(o)

ReconfigureSpec == ReconfigureInit /\ [][ReconfigureNext]_vars

----------------------------------------------------------------------------
\* Derived notions used by the properties

InStack(j) == \E i \in 1..Len(stack) : stack[i] = j

\* the step sends a value to job k
Notified(k) == notify'[k] # notify[k]

\* the step is the loop taking a forced quit
ForcedStep == ~hasQuit /\ lastEvent' = "quitForced"

\* the job was handed to the loop over s.req
Handed(j) == pc[j] \in {"queued", "admitted", "released", "returned"}

\* the step is the loop processing the arrival of job j
ArrivalStep(j) == ~hasQuit /\ pc[j] = "select" /\ pc'[j] # "select"

\* the step is the loop processing the completion of job j
DoneStep(j) == ~hasQuit /\ pc[j] = "admitted" /\ pc'[j] = "released"

----------------------------------------------------------------------------
\* C1: with options that are never reconfigured, in every state between two
\* events of the loop the number of active jobs is at least 0 and at most
\* MaxConcurrency, whatever the interleaving of Wait, done, timer expiry,
\* Status, Close and CloseForced.
C1_ActiveWithinCeiling == 0 <= busy /\ busy <= options.MaxConcurrency

\* the ceiling is reached again by a completion that promoted a queued job
C1_Witness ==
    /\ lastEvent = "done"
    /\ options.MaxConcurrency = 2
    /\ busy = options.MaxConcurrency
    /\ \E j \in Jobs : pc[j] = "released"
    /\ \E j \in Jobs : pc[j] = "queued"

\* C2: when MaxStackSize > 0 the buffer never holds more than MaxStackSize jobs
\* between events, and an arrival that finds the buffer full leaves, in the same
\* event, the buffer at the same length: the bottom job is gone and the
\* arriving job is on top.
C2_BufferWithinCapacity ==
    /\ [](options.MaxStackSize > 0 => Len(stack) <= options.MaxStackSize)
    /\ [][\A j \in Jobs :
            (/\ ArrivalStep(j)
             /\ pc'[j] = "queued"
             /\ options.MaxStackSize > 0
             /\ Len(stack) = options.MaxStackSize)
            => (/\ Len(stack') = Len(stack)
                /\ bottom(stack) \notin Elems(stack')
                /\ Head(stack') = j)]_vars

\* a full buffer of two has just displaced its bottom job
C2_Witness ==
    /\ lastEvent = "req"
    /\ options.MaxStackSize = 2
    /\ Len(stack) = 2
    /\ \E j \in Jobs : err[j] = ErrStackFull

\* C3: a job handed to the loop is either parked in the buffer with nothing sent
\* on its notify channel, or out of the buffer with exactly one value sent (nil,
\* ErrStackFull, ErrTimeout or ErrClosed); the loop never sends a second value,
\* and never sends to a job that was not handed to it.
C3_ExactlyOneResult ==
    \A j \in Jobs :
        /\ Len(notify[j]) <= 1
        /\ \A i \in 1..Len(notify[j]) : notify[j][i] \in {Nil, ErrStackFull, ErrTimeout, ErrClosed}
        /\ Handed(j) => \/ InStack(j) /\ notify[j] = <<>> /\ pc[j] = "queued"
                        \/ ~InStack(j) /\ Len(notify[j]) = 1 /\ pc[j] # "queued"
        /\ ~Handed(j) => ~InStack(j) /\ notify[j] = <<>>

\* one run in which all four results were delivered, each to a different job
C3_Witness ==
    /\ \E j \in Jobs : notify[j] = <<Nil>>
    /\ \E j \in Jobs : notify[j] = <<ErrStackFull>>
    /\ \E j \in Jobs : notify[j] = <<ErrTimeout>>
    /\ \E j \in Jobs : notify[j] = <<ErrClosed>>

\* C4: when two jobs are parked and A was handed over before B, no step admits
\* A while B is still parked; a completion that finds jobs parked admits the one
\* handed over last, and only that one.
C4_LifoAdmission ==
    [][/\ \A x, y \in 1..Len(pushed) :
            (x < y /\ InStack(pushed[x]) /\ InStack(pushed[y]))
            => ~(Notified(pushed[x]) /\ err'[pushed[x]] = Nil)
       /\ \A j \in Jobs :
            (DoneStep(j) /\ pushed # <<>>)
            => /\ notify'[pushed[Len(pushed)]] = <<Nil>>
               /\ \A k \in Jobs \ {pushed[Len(pushed)]} : ~Notified(k)]_vars

\* with MaxConcurrency 1, a completion has just promoted a job out of a buffer
\* of at least two: one job runs, another is still parked
C4_Witness ==
    /\ lastEvent = "done"
    /\ options.MaxConcurrency = 1
    /\ busy = 1
    /\ stack # <<>>
    /\ \E j \in Jobs : pc[j] = "released"

\* C5: an arrival processed while the loop is not closing, with every slot taken
\* and the buffer full, sends ErrStackFull to exactly one job, the one handed
\* over earliest among the parked ones, sends nothing else, puts the arriving
\* job on top, and leaves the buffer length and busy as they were.
C5_Displacement ==
    [][\A j \in Jobs :
        (/\ ArrivalStep(j)
         /\ ~closing
         /\ busy = options.MaxConcurrency
         /\ options.MaxStackSize > 0
         /\ Len(stack) = options.MaxStackSize)
        => (/\ notify'[pushed[1]] = <<ErrStackFull>>
            /\ pc'[pushed[1]] = "returned"
            /\ \A k \in Jobs \ {pushed[1]} : ~Notified(k)
            /\ ~(\E i \in 1..Len(stack') : stack'[i] = pushed[1])
            /\ Head(stack') = j
            /\ pc'[j] = "queued"
            /\ Len(stack') = Len(stack)
            /\ busy' = busy)]_vars

\* a buffer of capacity two has just displaced a job: two jobs are parked, one
\* got ErrStackFull, the loop is not closing
C5_Witness ==
    /\ lastEvent = "req"
    /\ ~closing
    /\ options.MaxStackSize = 2
    /\ Len(stack) = 2
    /\ busy = options.MaxConcurrency
    /\ \E k \in Jobs : notify[k] = <<ErrStackFull>>

\* C6: once a graceful Close was taken by the loop, every arrival the loop
\* processes gets ErrClosed, is not pushed, and leaves busy and the buffer as
\* they were, also when busy < MaxConcurrency.
C6_ArrivalAfterClose ==
    [][\A j \in Jobs :
        (ArrivalStep(j) /\ closing)
        => (/\ notify'[j] = <<ErrClosed>>
            /\ pc'[j] = "returned"
            /\ \A k \in Jobs \ {j} : ~Notified(k)
            /\ stack' = stack
            /\ busy' = busy
            /\ ~hasQuit')]_vars

\* an arrival was rejected during closing although a slot was free
C6_Witness ==
    /\ lastEvent = "req"
    /\ closing
    /\ ~hasQuit
    /\ busy < options.MaxConcurrency
    /\ \E j \in Jobs : notify[j] = <<ErrClosed>>

\* C7: with CloseTimeout = 0 and no CloseForced, after Close the loop has ended
\* exactly when busy = 0 and the buffer is empty; until then a completion that
\* finds jobs parked admits the one handed over last, and no parked job is sent
\* ErrClosed.
C7_GracefulCloseDrains ==
    /\ []((closing /\ options.CloseTimeout = 0 /\ lastEvent # "quitForced")
            => (hasQuit <=> (busy = 0 /\ stack = <<>>)))
    /\ [][(closing /\ options.CloseTimeout = 0 /\ ~ForcedStep)
            => /\ \A j \in Jobs :
                    (DoneStep(j) /\ stack # <<>>)
                    => notify'[Head(stack)] = <<Nil>> /\ Head(stack) = pushed[Len(pushed)]
               /\ \A k \in Jobs : InStack(k) => err'[k] # ErrClosed]_vars

\* Close found one job running and two parked (MaxConcurrency 1, no timeouts);
\* the first completion since has admitted one of them and one is still parked
C7_Witness ==
    /\ closing
    /\ ~hasQuit
    /\ lastEvent = "done"
    /\ options.MaxConcurrency = 1
    /\ options.Timeout = 0
    /\ options.CloseTimeout = 0
    /\ Cardinality({j \in Jobs : pc[j] = "released"}) = 1
    /\ busy = 1
    /\ Len(stack) = 1

\* C8: if every admitted job calls done and the loop takes the completions
\* offered to it, then once Close was taken the loop eventually ends (hasQuit is
\* closed), with or without job timeouts, and without the close timeout or
\* CloseForced being needed.
C8_GracefulCloseTerminates == closing ~> hasQuit

\* the loop has ended on a completion, after Close, with no close timeout set
C8_Witness ==
    /\ closing
    /\ hasQuit
    /\ lastEvent = "done"
    /\ options.CloseTimeout = 0
    /\ Cardinality({j \in Jobs : pc[j] = "released"}) = 3

\* C9: a forced quit, taken while running or while closing, sends ErrClosed to
\* every parked job and to nobody else, leaves the buffer empty, and ends the
\* loop in the same event whatever busy is.
C9_ForcedClose ==
    [][ForcedStep
        => (/\ \A k \in Jobs : InStack(k) => notify'[k] = <<ErrClosed>> /\ pc'[k] = "returned"
            /\ \A k \in Jobs : ~InStack(k) => ~Notified(k)
            /\ stack' = <<>>
            /\ hasQuit'
            /\ busy' = busy)]_vars

\* a forced quit taken while closing, with a job still running, rejected a
\* parked job
C9_Witness ==
    /\ lastEvent = "quitForced"
    /\ closing
    /\ hasQuit
    /\ busy > 0
    /\ stack = <<>>
    /\ \E k \in Jobs : notify[k] = <<ErrClosed>>

\* C10: the done of every admitted job returns, under the scheduling of
\* FairSpec: it hands the completion to the loop, or it sees hasQuit closed.
\* A job leaves "admitted" only by returning from done, and never comes back,
\* so "no job is admitted forever" says that every done returns.
C10_ReleaseReturns == \A j \in Jobs : []<>(pc[j] # "admitted")

\* the loop was ended by a forced quit while jobs were running, and every one
\* of them has returned from done since
C10_Witness ==
    /\ lastEvent = "quitForced"
    /\ hasQuit
    /\ busy > 0
    /\ \A j \in Jobs : pc[j] # "admitted"

----------------------------------------------------------------------------
\* C11: once hasQuit is closed no call blocks on the loop that has returned:
\* a Wait that has not handed its job over returns ErrClosed, Status returns
\* Status{Closed: true} with zero ActiveJobs and QueuedJobs, Reconfigure
\* returns ErrClosed, Close and CloseForced return; the hasQuit case of each
\* of these calls can be taken whenever hasQuit is closed.
C11_AfterTermination ==
    /\ [](hasQuit =>
            /\ ENABLED StatusHasQuit
            /\ ENABLED CloseHasQuit(FALSE)
            /\ ENABLED CloseHasQuit(TRUE)
            /\ ENABLED ReconfigureHasQuit
            /\ \A j \in Jobs : pc[j] = "select" => ENABLED WaitHasQuit(j)
            /\ call.op = "Status" =>
                   /\ statusReply.Closed
                   /\ statusReply.ActiveJobs = 0
                   /\ statusReply.QueuedJobs = 0
            /\ call.op = "Reconfigure" => call.err = ErrClosed)
    /\ [][\A j \in Jobs :
            hasQuit /\ pc[j] = "select" /\ pc'[j] # "select"
                => pc'[j] = "notSent" /\ err'[j] = ErrClosed]_vars

\* the loop was closed by force while a job ran; after that a Wait, a Status
\* and a Reconfigure call were made
C11_Witness ==
    /\ hasQuit
    /\ busy > 0
    /\ \E j \in Jobs : pc[j] = "notSent" /\ err[j] = ErrClosed
    /\ statusReply = ClosedStatus
    /\ call = [op |-> "Reconfigure", err |-> ErrClosed]

----------------------------------------------------------------------------
\* the step in which the close timeout fires
CloseTimeoutStep == ~hasQuit /\ lastEvent' = "closeTimeout"

\* C12: the close timeout is armed only by a graceful Close that finds a
\* running or a queued job while CloseTimeout is positive.  When it fires,
\* every job still on the stack, and no other, gets ErrClosed, the stack is
\* emptied and run returns at once, with busy left as it is.
C12_CloseTimeout ==
    [][/\ ~closeTimeout /\ closeTimeout' =>
            /\ lastEvent' = "quit"
            /\ closing'
            /\ options.CloseTimeout > 0
            /\ busy > 0 \/ ~empty(stack)
            /\ ~hasQuit'
       /\ CloseTimeoutStep =>
            /\ closeTimeout
            /\ \A k \in Jobs : InStack(k) =>
                    notify'[k] = <<ErrClosed>> /\ err'[k] = ErrClosed /\ pc'[k] = "returned"
            /\ \A k \in Jobs : ~InStack(k) => ~Notified(k)
            /\ stack' = <<>>
            /\ busy' = busy
            /\ hasQuit']_vars

\* the close timeout has fired while a job was running and another was queued
C12_Witness ==
    /\ lastEvent = "closeTimeout"
    /\ hasQuit
    /\ busy > 0
    /\ \E j \in Jobs : pc[j] = "admitted"
    /\ \E k \in Jobs : pc[k] = "returned" /\ notify[k] = <<ErrClosed>>

----------------------------------------------------------------------------
----------------------------------------------------------------------------
\* C14: a Status call answered by run returns exactly busy, the length of the
\* stack, the closing flag and Closed = false; the counters are reported as
\* they are while a graceful close drains the queue.
C14_StatusSnapshot ==
    lastEvent = "status" =>
        statusReply = [ActiveJobs |-> busy, QueuedJobs |-> Len(stack),
                       Closing |-> closing, Closed |-> FALSE]

\* Status during a graceful close with one running and two queued jobs
C14_Witness ==
    /\ lastEvent = "status"
    /\ ~hasQuit
    /\ statusReply = [ActiveJobs |-> 1, QueuedJobs |-> 2, Closing |-> TRUE, Closed |-> FALSE]

----------------------------------------------------------------------------
\* the step in which run takes a Reconfigure call
ReconfigureStep == ~hasQuit /\ Len(reconfigures') = Len(reconfigures) + 1

----------------------------------------------------------------------------
\* C16, as stated: no Status reply reports more running jobs than
\* MaxConcurrency allows, also after a Reconfigure that lowers MaxConcurrency
\* below the number of running jobs.
C16_StatusWithinCeiling ==
    lastEvent = "status" => statusReply.ActiveJobs <= options.MaxConcurrency

\* C16, amended: a Status reply reports more running jobs than MaxConcurrency
\* allows only after a Reconfigure that set MaxConcurrency below the number of
\* jobs running at that moment.
C16_StatusWithinCeilingUnlessLowered ==
    lastEvent = "status" /\ statusReply.ActiveJobs > options.MaxConcurrency
        => \E i \in 1..Len(reconfigures) : reconfigures[i]

\* Status after Reconfigure lowered MaxConcurrency from 2 to 1 while two jobs
\* ran and two were queued
C16_Witness ==
    /\ lastEvent = "status"
    /\ reconfigures = <<TRUE>>
    /\ options.MaxConcurrency = 1
    /\ statusReply.ActiveJobs = 2 /\ statusReply.QueuedJobs = 2

----------------------------------------------------------------------------
\* C17, as stated: whenever busy is positive or the stack is not empty, run
\* has not returned; also after CloseForced and after the close timeout.
C17_WorkImpliesRunning == busy > 0 \/ ~empty(stack) => ~hasQuit

\* C17, amended: run never returns with a job on the stack, and it returns
\* with busy positive only from CloseForced or from the close timeout, which
\* do not wait for the running jobs.
C17_QueuedImpliesRunning ==
    /\ ~empty(stack) => ~hasQuit
    /\ busy > 0 /\ hasQuit => lastEvent \in {"quitForced", "closeTimeout"}

\* CloseForced was called while two jobs ran; one of them has called done since
C17_Witness ==
    /\ hasQuit
    /\ lastEvent = "quitForced"
    /\ busy = 2
    /\ \E j, k \in Jobs : pc[j] = "admitted" /\ pc[k] = "released"

----------------------------------------------------------------------------
\* the jobs whose Wait returned nil
Admitted == {j \in Jobs : err[j] = Nil}

\* the jobs whose done has returned
Released == {j \in Jobs : pc[j] = "released"}

\* C18: while run has not returned, busy is the number of jobs that Wait
\* admitted minus the number of completions run has taken.  Once run has
\* returned no job is admitted and busy stays: it counts the admitted jobs
\* whose done finds, or will find, hasQuit closed, so that the admitted jobs
\* are the completions run took plus the done calls that saw hasQuit.
C18_ReleaseAccounting ==
    /\ [](~hasQuit => busy = Cardinality(Admitted) - Cardinality(Released))
    /\ [](hasQuit =>
            /\ Cardinality(Admitted) - busy <= Cardinality(Released)
            /\ Cardinality(Released) <= Cardinality(Admitted))
    /\ [][hasQuit => busy' = busy /\ Admitted' = Admitted]_vars

\* three jobs were admitted: run took the completions of two of them, the
\* third called done after CloseForced
C18_Witness ==
    /\ hasQuit
    /\ busy = 1
    /\ Cardinality(Admitted) = 3
    /\ Cardinality(Released) = 3

----------------------------------------------------------------------------
\* C19: for a request served through the Handler, the wrapped handler runs
\* as the job of Do, so only for an admitted request, and then the Handler
\* writes no status of its own; ErrStackFull is answered with
\* StackFullStatusCode and ErrTimeout with TimeoutStatusCode, each 503 when
\* the option is unset.
C19_HTTPHandler ==
    [](/\ \A j \in Jobs : j \in Served <=> err[j] = Nil
       /\ \A e \in {err[j] : j \in Jobs} : \A o \in HTTPOptionInputs :
            LET w == ServeHTTP(NewHandler(o), e)
            IN /\ e = ErrStackFull =>
                    w = IF o.StackFullStatusCode = 0 THEN 503 ELSE o.StackFullStatusCode
               /\ e = ErrTimeout =>
                    w = IF o.TimeoutStatusCode = 0 THEN 503 ELSE o.TimeoutStatusCode
               /\ e = Nil => w = 0)

\* one request was dropped from the stack, one timed out and one is being
\* served by the wrapped handler
C19_Witness ==
    /\ \E j \in Jobs : err[j] = ErrStackFull /\ pc[j] = "returned"
    /\ \E j \in Jobs : err[j] = ErrTimeout /\ pc[j] = "returned"
    /\ \E j \in Served : pc[j] = "admitted"
    /\ ~closing /\ ~hasQuit

----------------------------------------------------------------------------
\* C20: ErrTimeout is sent only to the job at the bottom of the stack, which
\* is the one queued for the longest time; the step removes that job alone,
\* leaves the other queued jobs in their places, answers no other job and
\* does not change busy.
C20_DeadlineExpiry ==
    [][\A k \in Jobs :
        Notified(k) /\ err'[k] = ErrTimeout =>
            /\ ~empty(stack)
            /\ k = stack[Len(stack)]
            /\ k = pushed[1]
            /\ stack' = SubSeq(stack, 1, Len(stack) - 1)
            /\ busy' = busy
            /\ \A i \in Jobs \ {k} : ~Notified(i)]_vars

\* the oldest of two queued jobs has timed out while another job ran
C20_Witness ==
    /\ lastEvent = "timeout"
    /\ busy > 0
    /\ Len(stack) = 1
    /\ \E k \in Jobs : err[k] = ErrTimeout /\ k < stack[1]

----------------------------------------------------------------------------
\* C21: the timers of the queued jobs are ordered as the jobs are in the
\* stack: of two queued jobs the one nearer the bottom was created, and its
\* timer armed, first, so that no timer fires before the bottom job's.  (Job
\* ids are the order of the newJob calls, the order the timers fire in.)
C21_DeadlinesOrdered ==
    options.Timeout > 0 =>
        /\ \A i, k \in 1..Len(stack) : i < k => stack[i] > stack[k]
        /\ \A j \in Jobs : InStack(j) /\ timerFired(j) => timerFired(bottom(stack))

\* C22: a queued job whose timer has fired is not admitted afterwards,
\* wherever it is in the stack and whatever else run can take.
C22_NoAdmissionAfterTimeout ==
    [][\A j \in Jobs : pc[j] = "queued" /\ timerFired(j) => err'[j] # Nil]_vars

----------------------------------------------------------------------------
----------------------------------------------------------------------------
----------------------------------------------------------------------------
\* the jobs that run has taken from s.req
Arrived == {j \in Jobs : Handed(j)}

\* the jobs that were dropped from the stack
Dropped == {j \in Jobs : err[j] = ErrStackFull}

\* run has taken nothing but arrivals so far: no completion, no timeout and no
\* Close or CloseForced
OnlyArrivals ==
    /\ ~closing /\ ~hasQuit
    /\ \A j \in Jobs : pc[j] # "released" /\ err[j] \notin {ErrTimeout, ErrClosed}

\* the arrivals beyond those that MaxConcurrency and MaxStackSize have room for
Excess ==
    LET over == Cardinality(Arrived) - options.MaxConcurrency - options.MaxStackSize
    IN IF over > 0 THEN over ELSE 0

\* C25: with MaxStackSize s > 0 and MaxConcurrency c, when N jobs have
\* arrived and nothing else has been taken by run, exactly max(0, N - c - s)
\* of them got ErrStackFull; whatever else run has taken, at most that many
\* did; and each of them was, when it was dropped, the job queued first.
C25_BurstDisplacement ==
    /\ [](options.MaxStackSize > 0 => Cardinality(Dropped) <= Excess)
    /\ [](options.MaxStackSize > 0 /\ OnlyArrivals => Cardinality(Dropped) = Excess)
    /\ [][\A k \in Jobs : Notified(k) /\ err'[k] = ErrStackFull => k = pushed[1]]_vars

\* four arrivals at {MaxConcurrency: 1, MaxStackSize: 1}: two were dropped
C25_Witness ==
    /\ OnlyArrivals
    /\ options.MaxConcurrency = 1 /\ options.MaxStackSize = 1
    /\ Cardinality(Arrived) = 4
    /\ Cardinality(Dropped) = 2
    /\ busy = 1 /\ Len(stack) = 1

----------------------------------------------------------------------------
\* C26: options with MaxConcurrency <= 0, passed to With or to Reconfigure,
\* are the options with MaxConcurrency 1.  A Stack with such options never
\* has a MaxConcurrency below 1; it admits an arrival that finds no job
\* running and queues one that finds a job running, so that two arrivals at
\* an idle Stack leave one running and one queued job.
C26_DefaultConcurrency ==
    /\ [](/\ options.MaxConcurrency >= 1
          /\ \A c \in -1..0 :
                With([options EXCEPT !.MaxConcurrency = c])
                    = With([options EXCEPT !.MaxConcurrency = 1]))
    /\ [][\A j \in Jobs :
            ArrivalStep(j) /\ options = With([options EXCEPT !.MaxConcurrency = 0]) =>
                IF busy = 0
                THEN busy' = 1 /\ err'[j] = Nil /\ stack' = stack
                ELSE busy' = busy /\ pc'[j] = "queued" /\ Head(stack') = j]_vars

\* Status after Reconfigure and two Wait calls, with the options that
\* MaxConcurrency 0 stands for
C26_Witness ==
    /\ lastEvent = "status"
    /\ reconfigures = <<FALSE>>
    /\ options = With([options EXCEPT !.MaxConcurrency = 0])
    /\ njobs = 2
    /\ statusReply.ActiveJobs = 1 /\ statusReply.QueuedJobs = 1

----------------------------------------------------------------------------
\* C27: with MaxStackSize = 0 the stack is never full, an arrival never
\* removes a queued job and no job gets ErrStackFull, however many jobs
\* arrive; with Timeout = 0 no timer fires and no job gets ErrTimeout.
C27_ZeroMeansUnbounded ==
    /\ [](options.MaxStackSize = 0 =>
            /\ ~full(stack, options.MaxStackSize)
            /\ \A j \in Jobs : err[j] # ErrStackFull)
    /\ [](options.Timeout = 0 =>
            /\ \A j \in Jobs : ~timerFired(j)
            /\ \A j \in Jobs : err[j] # ErrTimeout)
    /\ [][\A j \in Jobs :
            options.MaxStackSize = 0 /\ ArrivalStep(j) =>
                \A i \in 1..Len(stack) : stack'[i + Len(stack') - Len(stack)] = stack[i]]_vars

\* four arrivals at a Stack without MaxStackSize and Timeout: three are queued
C27_Witness ==
    /\ options.MaxStackSize = 0
    /\ options.Timeout = 0
    /\ Len(stack) = 3
    /\ busy = 1
    /\ lastEvent = "req"

----------------------------------------------------------------------------
\* C28: hasQuit is closed once, on each of the four ways run returns: from
\* the done case when a closing Stack has drained, from Close on an idle
\* Stack, from CloseForced and from the close timeout.  After that run takes
\* no event: hasQuit stays closed and busy, the stack and the closing flag
\* do not change, whatever is called.
C28_TerminatesOnce ==
    /\ [][~hasQuit /\ hasQuit' =>
            \/ lastEvent' = "done" /\ closing /\ busy' = 0 /\ empty(stack')
            \/ lastEvent' = "quit" /\ closing' /\ busy = 0 /\ empty(stack)
            \/ lastEvent' = "quitForced"
            \/ lastEvent' = "closeTimeout" /\ closeTimeout]_vars
    /\ [][hasQuit =>
            /\ hasQuit'
            /\ busy' = busy
            /\ stack' = stack
            /\ closing' = closing
            /\ lastEvent' = lastEvent
            /\ notify' = notify]_vars

\* Close on an idle Stack has closed hasQuit; a Wait and a Close call that
\* came later changed nothing
C28_Witness ==
    /\ hasQuit
    /\ lastEvent = "quit"
    /\ closing /\ busy = 0 /\ empty(stack)
    /\ \E j \in Jobs : pc[j] = "notSent"
    /\ call.op = "Close"

----------------------------------------------------------------------------
\* C29: Close on a Stack that is closing already and has not quit is taken by
\* run at once; it sends nothing to any job, leaves busy and the stack as
\* they are, keeps the Stack closing and does not make run return.
C29_SecondClose ==
    /\ [](closing /\ ~hasQuit => ENABLED runQuit(FALSE))
    /\ [][closing /\ ~hasQuit /\ lastEvent' = "quit" =>
            /\ notify' = notify
            /\ busy' = busy
            /\ stack' = stack
            /\ closing'
            /\ ~hasQuit']_vars

\* Close was called again after a job had arrived at the closing Stack, while
\* a job runs and another is queued
C29_Witness ==
    /\ closing /\ ~hasQuit
    /\ lastEvent = "quit"
    /\ \E j \in Jobs : err[j] = ErrClosed
    /\ busy > 0
    /\ ~empty(stack)

----------------------------------------------------------------------------
\* C30: between the events of run, a job is queued only while busy has
\* reached MaxConcurrency: no job waits on the stack while a job could run.
C30_WorkConservation == [](~empty(stack) => busy >= options.MaxConcurrency)

\* a completion has admitted the top job and left another queued, with both
\* slots taken
C30_Witness ==
    /\ lastEvent = "done"
    /\ ~empty(stack)
    /\ options.MaxConcurrency = 2
    /\ busy = 2
    /\ \E j \in Jobs : pc[j] = "released"

----------------------------------------------------------------------------
\* C31: while the Stack is closing and run has not returned, at least one job
\* is running: closing with busy = 0 is never a state run rests in, so a
\* timeout that empties the stack during closing leaves a running job whose
\* completion ends run.
C31_NoStuckClosing == [](closing /\ ~hasQuit => busy >= 1)

\* the bottom job timed out while the Stack was closing and left the stack
\* empty; one job is still running and run has not returned
C31_Witness ==
    /\ closing /\ ~hasQuit
    /\ lastEvent = "timeout"
    /\ empty(stack)
    /\ busy = 1
    /\ \E j \in Jobs : notify[j] = <<ErrTimeout>>

----------------------------------------------------------------------------
\* C32: once hasQuit is closed the stack is empty and no job that run has
\* received is still waiting on its notify channel: every job is either
\* not yet received by run or has been sent its one result.
C32_NoStrandedWaiter ==
    [](hasQuit =>
          /\ empty(stack)
          /\ \A j \in Jobs : pc[j] # "queued"
          /\ \A j \in Jobs : pc[j] \in {"admitted", "released", "returned"}
                                => Len(notify[j]) = 1)

\* the close timeout ended run while a job was running and two were queued:
\* both queued jobs were sent ErrClosed and the stack is empty
C32_Witness ==
    /\ hasQuit
    /\ lastEvent = "closeTimeout"
    /\ busy = 1
    /\ empty(stack)
    /\ Cardinality({j \in Jobs : notify[j] = <<ErrClosed>> /\ pc[j] = "returned"}) = 2


====
